---- MODULE Spec2Model ----
(***************************************************************************)
(* Model of the aidocswriter VS Code extension: region detection           *)
(* (getCodeToDocument), comment insertion (insertDocstring), the backend   *)
(* call with its response cleanup (callGeminiAPI) and the command handler  *)
(* (generateDocstring).                                                    *)
(*                                                                         *)
(* Two versions of extension.ts are in the repository: the current one     *)
(* (src/src/extension.ts: language profiles, strict upward walk) and an    *)
(* earlier python-only one (src/unnamed/part_000).  The variable `variant` *)
(* says which one runs.                                                    *)
(*                                                                         *)
(* Text is a sequence of one-character strings; a document is the          *)
(* non-empty sequence of its lines, as vscode.TextDocument exposes it.     *)
(***************************************************************************)
EXTENDS Integers, Sequences, FiniteSets, TLC

\* ------------------------------------------------------------------ bounds
\* largest number of lines of a document the user starts the command on
MaxLines == 3

\* ------------------------------------------------------- string primitives
Min(a, b) == IF a <= b THEN a ELSE b

\* JavaScript's \s, restricted to the characters the model uses
IsWs(c) == c \in {" ", "\t", "\n", "\r"}

\* String.prototype.startsWith
StartsWith(s, p) == Len(s) >= Len(p) /\ SubSeq(s, 1, Len(p)) = p

\* String.prototype.endsWith
EndsWith(s, p) == Len(s) >= Len(p) /\ SubSeq(s, Len(s) - Len(p) + 1, Len(s)) = p

\* String.prototype.includes
Includes(s, p) == \E i \in 1..(Len(s) - Len(p) + 1) : SubSeq(s, i, i + Len(p) - 1) = p

\* String.prototype.lastIndexOf, zero-based, -1 when absent
LastIndexOf(s, p) ==
  LET hits == {i \in 1..(Len(s) - Len(p) + 1) : SubSeq(s, i, i + Len(p) - 1) = p}
  IN IF hits = {} THEN -1 ELSE (CHOOSE i \in hits : \A j \in hits : j <= i) - 1

\* number of leading whitespace characters: the length of the match of /^(\s*)/
\* and TextLine.firstNonWhitespaceCharacterIndex (the line length when the line
\* is all whitespace)
FirstNonWs(s) ==
  LET nonWs == {i \in 1..Len(s) : ~IsWs(s[i])}
  IN IF nonWs = {} THEN Len(s) ELSE (CHOOSE i \in nonWs : \A j \in nonWs : i <= j) - 1

\* TextLine.isEmptyOrWhitespace
IsEmptyOrWhitespace(s) == FirstNonWs(s) = Len(s)

\* the text matched by /^(\s*)/
LeadingWs(s) == SubSeq(s, 1, FirstNonWs(s))

\* String.prototype.trim
Trim(s) ==
  LET nonWs == {i \in 1..Len(s) : ~IsWs(s[i])}
  IN IF nonWs = {} THEN <<>>
     ELSE SubSeq(s, CHOOSE i \in nonWs : \A j \in nonWs : i <= j,
                    CHOOSE i \in nonWs : \A j \in nonWs : j <= i)

\* String.prototype.substring(from, to), zero-based: both arguments are clamped
\* to 0..length and swapped when from > to
Substring(s, from, to) ==
  LET a == IF from < 0 THEN 0 ELSE Min(from, Len(s))
      b == IF to < 0 THEN 0 ELSE Min(to, Len(s))
  IN SubSeq(s, Min(a, b) + 1, IF a >= b THEN a ELSE b)

\* Array.prototype.join
RECURSIVE Join(_, _)
Join(parts, sep) ==
  IF Len(parts) = 0 THEN <<>>
  ELSE IF Len(parts) = 1 THEN parts[1]
  ELSE parts[1] \o sep \o Join(Tail(parts), sep)

NL == <<"\n">>

\* String.prototype.split(/\r?\n/): always at least one part
RECURSIVE SplitLines(_)
SplitLines(s) ==
  LET nls == {i \in 1..Len(s) : s[i] = "\n"}
  IN IF nls = {} THEN <<s>>
     ELSE LET i == CHOOSE k \in nls : \A j \in nls : k <= j
              cut == IF i > 1 /\ s[i - 1] = "\r" THEN i - 2 ELSE i - 1
          IN <<SubSeq(s, 1, cut)>> \o SplitLines(SubSeq(s, i + 1, Len(s)))

\* ASCII lower-casing of the letters the model uses (the /i flag)
Lower(c) ==
  IF c = "F" THEN "f" ELSE IF c = "U" THEN "u" ELSE IF c = "N" THEN "n"
  ELSE IF c = "C" THEN "c" ELSE IF c = "T" THEN "t" ELSE IF c = "I" THEN "i"
  ELSE IF c = "O" THEN "o" ELSE c

LowerStr(s) == [i \in 1..Len(s) |-> Lower(s[i])]

\* [a-zA-Z0-9_-]
IsNameChar(c) ==
  Lower(c) \in {"a", "b", "c", "d", "e", "f", "g", "h", "i", "j", "k", "l", "m",
                "n", "o", "p", "q", "r", "s", "t", "u", "v", "w", "x", "y", "z",
                "0", "1", "2", "3", "4", "5", "6", "7", "8", "9", "_", "-"}

\* s with its leading whitespace removed (what is left after a greedy \s*)
DropWs(s) == SubSeq(s, FirstNonWs(s) + 1, Len(s))

\* s starts with the keyword kw followed by at least one whitespace: kw\s+
KwThenWs(s, kw) == StartsWith(s, kw) /\ Len(s) > Len(kw) /\ IsWs(s[Len(kw) + 1])

\* ------------------------------------------------------- language profiles
KwDef == <<"d", "e", "f">>

KwClass == <<"c", "l", "a", "s", "s">>

KwAsync == <<"a", "s", "y", "n", "c">>

KwFunction == <<"f", "u", "n", "c", "t", "i", "o", "n">>

KwFilter == <<"f", "i", "l", "t", "e", "r">>

KwWorkflow == <<"w", "o", "r", "k", "f", "l", "o", "w">>

KwConfiguration == <<"c", "o", "n", "f", "i", "g", "u", "r", "a", "t", "i", "o", "n">>

TripleQuote == <<"\"", "\"", "\"">>

PsOpen == <<"<", "#">>

PsClose == <<"#", ">">>

Shebang == <<"#", "!">>

\* 'Generic __init__.py.' (abbreviated to its first word and the final dot)
PyEmptyCodeResponse == <<"G", "e", "n", "e", "r", "i", "c", ".">>

\* '.SYNOPSIS\n  A brief summary of the function.' (abbreviated, two lines kept)
PsEmptyCodeResponse == <<".", "S", "\n", " ", " ", "A", ".">>

\* LANGUAGE_CONFIGS: commentStyle and promptSettings.emptyCodeResponse
LANGUAGE_CONFIGS ==
  [python |-> [languageIds |-> {"python"},
               commentStyle |-> [start |-> TripleQuote, end |-> TripleQuote, linePrefix |-> <<>>],
               emptyCodeResponse |-> PyEmptyCodeResponse],
   powershell |-> [languageIds |-> {"powershell"},
               commentStyle |-> [start |-> PsOpen, end |-> PsClose, linePrefix |-> <<" ", " ">>],
               emptyCodeResponse |-> PsEmptyCodeResponse]]

\* /^\s*((async\s)?def|class)\s+/  (current version, python profile)
PyDefinitionKeywords(line) ==
  LET r == DropWs(line)
  IN \/ KwThenWs(r, KwDef)
     \/ KwThenWs(r, KwClass)
     \/ /\ KwThenWs(r, KwAsync)
        /\ KwThenWs(SubSeq(r, Len(KwAsync) + 2, Len(r)), KwDef)

\* /^\s*(function|filter|workflow|configuration)\s+([a-zA-Z0-9_-]+)(?:\s*\(.*?\))?\s*/i
\* (the optional tail never decides the match)
PsDefinitionKeywords(line) ==
  LET r == LowerStr(DropWs(line))
  IN \E kw \in {KwFunction, KwFilter, KwWorkflow, KwConfiguration} :
       /\ KwThenWs(r, kw)
       /\ LET rest == DropWs(SubSeq(r, Len(kw) + 1, Len(r)))
          IN Len(rest) > 0 /\ IsNameChar(rest[1])

\* /^\s*((async)?\s*def|class)\s+/  (earlier version)
LegacyDefinitionKeywords(line) ==
  LET r == DropWs(line)
  IN \/ KwThenWs(r, KwDef)
     \/ KwThenWs(r, KwClass)
     \/ /\ StartsWith(r, KwAsync)
        /\ KwThenWs(DropWs(SubSeq(r, Len(KwAsync) + 1, Len(r))), KwDef)

\* languageConfig.definitionKeywords.test(lineText), per version and profile
DefinitionKeywords(v, lang, line) ==
  IF v = "legacy" THEN LegacyDefinitionKeywords(line)
  ELSE IF lang = "python" THEN PyDefinitionKeywords(line)
  ELSE PsDefinitionKeywords(line)

\* ------------------------------------------------- vscode.TextDocument API
\* a position is [line, character], both zero-based
Pos(l, c) == [line |-> l, character |-> c]

\* TextDocument.lineAt(n).text
LineAt(d, n) == d[n + 1]

\* TextDocument.getText()
GetText(d) == Join(d, NL)

\* TextDocument.validatePosition: a position past the last line becomes the end
\* of the last line, a character past the end of its line becomes the line's end
ValidatePosition(d, p) ==
  IF p.line >= Len(d) THEN Pos(Len(d) - 1, Len(d[Len(d)]))
  ELSE Pos(p.line, Min(p.character, Len(d[p.line + 1])))

\* TextDocument.offsetAt of a valid position
RECURSIVE OffsetAt(_, _)
OffsetAt(d, p) ==
  IF p.line = 0 THEN p.character
  ELSE Len(d[1]) + 1 + OffsetAt(Tail(d), Pos(p.line - 1, p.character))

\* TextDocument.getText(range): the range is validated first
GetTextRange(d, r) ==
  LET a == OffsetAt(d, ValidatePosition(d, r.start))
      b == OffsetAt(d, ValidatePosition(d, r.end))
  IN SubSeq(GetText(d), a + 1, b)

\* the document after TextEditorEdit.insert(position, text) is applied: the
\* editor validates the position, then splices the text in at its offset
ApplyInsert(d, p, text) ==
  LET off == OffsetAt(d, ValidatePosition(d, p))
      full == GetText(d)
  IN SplitLines(SubSeq(full, 1, off) \o text \o SubSeq(full, off + 1, Len(full)))

\* -------------------------------------------------------- getCodeToDocument
\* Selection.isEmpty
SelIsEmpty(sel) == sel.start = sel.end

\* mutant: the column of the cursor is not tested
IsModuleCase_AnyColumn(sel) == SelIsEmpty(sel) /\ sel.start.line = 0

\* Case 1 test: selection.isEmpty && active.line === 0 && active.character === 0
IsModuleCase(sel) == SelIsEmpty(sel) /\ sel.start.line = 0 /\ sel.start.character = 0

\* Case 1 result
ModuleContext(d) ==
  [code |-> GetText(d),
   isModuleLevel |-> TRUE,
   range |-> [start |-> Pos(0, 0), end |-> Pos(Len(d) - 1, Len(d[Len(d)]))],
   indentation |-> <<>>,
   definitionLine |-> 0]

\* mutant: the selected text is trimmed
SelectionContext_Trimmed(d, sel) ==
  [code |-> Trim(GetTextRange(d, sel)),
   isModuleLevel |-> FALSE,
   range |-> sel,
   indentation |-> LeadingWs(LineAt(d, sel.start.line)),
   definitionLine |-> sel.start.line]

\* Case 2 result
SelectionContext(d, sel) ==
  [code |-> GetTextRange(d, sel),
   isModuleLevel |-> FALSE,
   range |-> sel,
   indentation |-> LeadingWs(LineAt(d, sel.start.line)),
   definitionLine |-> sel.start.line]

\* mutant: a trailing colon is not accepted as a continuation
StrictAbort_NoColon(v, line) ==
  /\ v = "current"
  /\ ~EndsWith(line, <<",">>)
  /\ Len(Trim(line)) > 0

\* the strictness test of the current version's upward walk: the visited line is
\* not a definition line, is not blank and ends neither with ',' nor with ':'
StrictAbort(v, line) ==
  /\ v = "current"
  /\ ~EndsWith(line, <<",">>)
  /\ ~EndsWith(line, <<":">>)
  /\ Len(Trim(line)) > 0

\* the upward walk from line n: the definition line found ("found"), the start
\* of the document passed ("none"), or the strictness test fired ("throw")
RECURSIVE WalkUp(_, _, _, _)
WalkUp(v, lang, d, n) ==
  IF n < 0 THEN [kind |-> "none"]
  ELSE IF DefinitionKeywords(v, lang, LineAt(d, n)) THEN [kind |-> "found", line |-> n]
  ELSE IF StrictAbort(v, LineAt(d, n)) THEN [kind |-> "throw"]
  ELSE WalkUp(v, lang, d, n - 1)

\* mutant: only a line indented less than the definition ends the block
EndsBlock_Less(line, defIndent) == ~IsEmptyOrWhitespace(line) /\ FirstNonWs(line) < defIndent

\* the downward walk's stop test
EndsBlock(line, defIndent) == ~IsEmptyOrWhitespace(line) /\ FirstNonWs(line) <= defIndent

\* the downward walk from line n: the first line that ends the block, or lineCount
RECURSIVE WalkDown(_, _, _)
WalkDown(d, defIndent, n) ==
  IF n < Len(d) /\ ~EndsBlock(LineAt(d, n), defIndent)
  THEN WalkDown(d, defIndent, n + 1)
  ELSE n

\* Case 3 result for the definition line startLineNum
EnclosingContext(d, startLineNum) ==
  LET defLine == LineAt(d, startLineNum)
      endLineNum == WalkDown(d, FirstNonWs(defLine), startLineNum + 1)
      range == [start |-> Pos(startLineNum, 0), end |-> Pos(endLineNum, 0)]
  IN [code |-> GetTextRange(d, range),
      isModuleLevel |-> FALSE,
      range |-> range,
      indentation |-> LeadingWs(defLine),
      definitionLine |-> startLineNum]

\* getCodeToDocument: [kind |-> "context", ctx |-> ...], [kind |-> "null"], or
\* [kind |-> "throw"] for Error('Could not find a definition.')
GetCodeToDocument(v, lang, d, sel) ==
  IF IsModuleCase(sel) THEN [kind |-> "context", ctx |-> ModuleContext(d)]
  ELSE IF ~SelIsEmpty(sel) THEN [kind |-> "context", ctx |-> SelectionContext(d, sel)]
  ELSE LET up == WalkUp(v, lang, d, sel.start.line)
       IN IF up.kind = "throw" THEN [kind |-> "throw"]
          ELSE IF up.kind = "none" THEN [kind |-> "null"]
          ELSE [kind |-> "context", ctx |-> EnclosingContext(d, up.line)]

\* ---------------------------------------------------------- insertDocstring
\* the token that ends a signature: includes(':') for python, includes('{') for
\* powershell
BlockOpenMarker(lang) == IF lang = "powershell" THEN <<"{">> ELSE <<":">>

\* module mode: firstLine.startsWith('#!') ? 1 : 0
ModuleInsertLine(d) == IF StartsWith(LineAt(d, 0), Shebang) THEN 1 ELSE 0

\* mutant: the signature is taken to end on the definition line
SignatureEndLine_NoWalk(d, lang, n) == n

\* the while loop that moves signatureEndLine down from line n
RECURSIVE SignatureEndLine(_, _, _)
SignatureEndLine(d, lang, n) ==
  IF n < Len(d) - 1 /\ ~Includes(LineAt(d, n), BlockOpenMarker(lang))
  THEN SignatureEndLine(d, lang, n + 1)
  ELSE n

\* mutant: blank lines are prefixed like the others
IndentLines_AllLines(docstring, prefix) ==
  LET parts == SplitLines(docstring)
  IN [i \in 1..Len(parts) |-> prefix \o parts[i]]

\* docstring.split(/\r?\n/).map(line => line.trim() === '' ? '' : prefix + line)
IndentLines(docstring, prefix) ==
  LET parts == SplitLines(docstring)
  IN [i \in 1..Len(parts) |-> IF Trim(parts[i]) = <<>> THEN <<>> ELSE prefix \o parts[i]]

FourSpaces == <<" ", " ", " ", " ">>

\* the position handed to editBuilder.insert
InsertPos(d, lang, ctx) ==
  IF ctx.isModuleLevel THEN Pos(ModuleInsertLine(d), 0)
  ELSE Pos(SignatureEndLine(d, lang, ctx.definitionLine) + 1, 0)

\* the text handed to editBuilder.insert
InsertedText(v, lang, docstring, ctx) ==
  LET style == LANGUAGE_CONFIGS[lang].commentStyle
      bodyIndent == ctx.indentation \o FourSpaces
  IN IF v = "legacy"
     THEN IF ctx.isModuleLevel THEN docstring \o NL \o NL
          ELSE Join(IndentLines(docstring, bodyIndent), NL) \o NL
     ELSE IF ctx.isModuleLevel
          THEN style.start \o NL \o docstring \o NL \o style.end \o NL \o NL
          ELSE bodyIndent \o style.start \o NL
               \o Join(IndentLines(docstring, bodyIndent \o style.linePrefix), NL)
               \o NL \o bodyIndent \o style.end \o NL \o NL

\* ------------------------------------------------------------ callGeminiAPI
\* the backquote character, written "~" because the TLA+ lexer reserves it
BackTick == "~"

\* a markdown code fence: three backquotes
Fence == <<BackTick, BackTick, BackTick>>

TagPython == <<"p", "y", "t", "h", "o", "n">>

TagPowershell == <<"p", "o", "w", "e", "r", "s", "h", "e", "l", "l">>

\* length of the fence match at the head of s (0 when there is none): a fence
\* followed by a language tag and whitespace, else (current version) or
\* optionally (earlier version) a bare fence
FenceMatchLen(v, s) ==
  IF ~StartsWith(s, Fence) THEN 0
  ELSE LET r == SubSeq(s, 4, Len(s))
           tags == IF v = "legacy" THEN {TagPython} ELSE {TagPython, TagPowershell}
           hit == {t \in tags : StartsWith(r, t)}
       IN IF hit = {} THEN 3
          ELSE LET t == CHOOSE x \in hit : TRUE
               IN 3 + Len(t) + FirstNonWs(SubSeq(r, Len(t) + 1, Len(r)))

\* docstring.replace(fence pattern, empty string), all matches left to right
RECURSIVE StripFences(_, _)
StripFences(v, s) ==
  IF s = <<>> THEN <<>>
  ELSE LET n == FenceMatchLen(v, s)
       IN IF n > 0 THEN StripFences(v, SubSeq(s, n + 1, Len(s)))
          ELSE <<s[1]>> \o StripFences(v, Tail(s))

\* step 2: strip one outer pair of triple quotes
StripQuotes(s) ==
  IF StartsWith(s, TripleQuote) /\ EndsWith(s, TripleQuote)
  THEN Trim(Substring(s, 3, Len(s) - 3))
  ELSE s

\* step 3: strip a leading '<#'
StripOpen(s) == IF StartsWith(s, PsOpen) THEN Trim(Substring(s, 2, Len(s))) ELSE s

\* step 4: truncate at the last '#>'
TruncateClose(s) ==
  LET lastClosingIndex == LastIndexOf(s, PsClose)
  IN IF lastClosingIndex # -1 THEN Trim(Substring(s, 0, lastClosingIndex)) ELSE s

\* the cleanup of the text the backend returned
Cleanup(v, raw) ==
  IF v = "legacy" THEN Trim(StripFences(v, raw))
  ELSE TruncateClose(StripOpen(StripQuotes(Trim(StripFences(v, raw)))))

\* mutant: a payload without candidate text is taken as the empty docstring
CallGeminiAPI_NoTextCheck(v, resp) ==
  IF resp.kind = "http" THEN [kind |-> "throw", message |-> [kind |-> "errStatus", status |-> resp.status]]
  ELSE IF resp.kind = "error" THEN [kind |-> "throw", message |-> [kind |-> "errApi"]]
  ELSE IF resp.kind = "notext" THEN [kind |-> "ok", docstring |-> <<>>]
  ELSE [kind |-> "ok", docstring |-> Cleanup(v, resp.text)]

\* callGeminiAPI after fetch resolved with response resp: the error thrown or the
\* docstring returned
CallGeminiAPI(v, resp) ==
  IF resp.kind = "http" THEN [kind |-> "throw", message |-> [kind |-> "errStatus", status |-> resp.status]]
  ELSE IF resp.kind = "error" THEN [kind |-> "throw", message |-> [kind |-> "errApi"]]
  ELSE IF resp.kind = "notext" THEN [kind |-> "throw", message |-> [kind |-> "errFormat"]]
  ELSE [kind |-> "ok", docstring |-> Cleanup(v, resp.text)]

\* ------------------------------------------------------------------ inputs
\* the lines python documents are made of
PyLines ==
  {<<"d", "e", "f", " ", "f", "(", ")", ":">>,
   <<"d", "e", "f", " ", "f", "(">>,
   <<" ", " ", "d", "e", "f", " ", "g", "(", ")", ":">>,
   <<" ", " ", "x">>,
   <<" ", " ", "b", ":">>,
   <<" ", " ", "a", ",">>,
   <<>>,
   <<"#", "!">>}

\* the lines powershell documents are made of
PsLines ==
  {<<"F", "u", "n", "c", "t", "i", "o", "n", " ", "f", " ", "{">>,
   <<"f", "i", "l", "t", "e", "r", " ", "g">>,
   <<"{">>,
   <<" ", " ", "x", ",">>,
   <<>>,
   <<"#", "!">>}

LineChoices(lang) == IF lang = "powershell" THEN PsLines ELSE PyLines

\* the documents of at most MaxLines lines (a document always has one line)
Docs(lang) == UNION {[1..n -> LineChoices(lang)] : n \in 1..MaxLines}

\* the cursors (empty selections) and the non-empty selections tried on a
\* document: a cursor at the start and at the end of line 0 and at the start of
\* every other line; the selection of a whole line, and the selection from the
\* end of a line to the end of the next one
Selections(d) ==
  LET lastLine == Len(d) - 1
      eol(l) == Pos(l, Len(d[l + 1]))
  IN {[start |-> Pos(0, 0), end |-> Pos(0, 0)], [start |-> eol(0), end |-> eol(0)]}
     \cup {[start |-> Pos(l, 0), end |-> Pos(l, 0)] : l \in 1..lastLine}
     \cup {[start |-> Pos(l, 0), end |-> eol(l)] : l \in {k \in 0..lastLine : Len(d[k + 1]) > 0}}
     \cup {[start |-> eol(l), end |-> eol(l + 1)] : l \in 0..(lastLine - 1)}

\* texts the backend returns
RawTexts ==
  {<<"S", ".">>,
   Fence \o TagPython \o NL \o TripleQuote \o <<"A", ".", "\n", "\n", "B", ".">> \o TripleQuote \o NL \o Fence,
   PsOpen \o <<" ", ".", "S", " ">> \o PsClose \o <<" ", "x">>}

\* outcomes of the fetch: a non-success status, a payload with an error object,
\* a payload without candidate text, a payload with text
Responses ==
  {[kind |-> "http", status |-> 429], [kind |-> "error"], [kind |-> "notext"]}
  \cup {[kind |-> "ok", text |-> t] : t \in RawTexts}

\* ------------------------------------------------------------------- state
VARIABLES
  variant,     \* "current" (src/src/extension.ts) or "legacy" (src/unnamed/part_000)
  languageId,  \* editor.document.languageId
  env,         \* is there an active editor, are the two settings set
  doc,         \* the lines of editor.document
  version,     \* editor.document.version: grows with every change of the buffer
  selection,   \* editor.selection
  inv          \* per run of the generateDocstring command: its position and locals

vars == <<variant, languageId, env, doc, version, selection, inv>>

\* the runs of the command
Commands == {1, 2}

IdleCommand ==
  [pc |-> "idle", sel |-> [start |-> Pos(0, 0), end |-> Pos(0, 0)], doc0 |-> <<>>,
   result |-> [kind |-> "none"], response |-> [kind |-> "none"], docstring |-> <<>>, pending |-> [kind |-> "none"],
   before |-> <<>>, messages |-> <<>>, apiCalls |-> 0, inserts |-> 0]

\* the variant / language pairs with a profile
Supported(v, lang) == IF v = "legacy" THEN lang = "python" ELSE lang \in {"python", "powershell"}

Init ==
  /\ variant \in {"current", "legacy"}
  /\ languageId \in {"python", "powershell"}
  /\ Supported(variant, languageId)
  /\ env = [editor |-> TRUE, model |-> TRUE, apiKey |-> TRUE]
  /\ doc \in Docs(languageId)
  /\ version = 1
  /\ selection \in Selections(doc)
  /\ inv = [i \in Commands |-> IdleCommand]

\* ------------------------------------------------------- generateDocstring
\* the body handed to insertDocstring when the file is empty in module mode
EmptyDocstring(v, lang) ==
  IF v = "legacy" THEN TripleQuote \o PyEmptyCodeResponse \o TripleQuote
  ELSE LANGUAGE_CONFIGS[lang].emptyCodeResponse

\* mutant: the short-circuit is taken for non-module contexts instead
IsEmptyModule_NotModule(d, ctx) == Trim(GetText(d)) = <<>> /\ ~ctx.isModuleLevel

\* the short-circuit test: getText().trim() === '' && codeContext.isModuleLevel
IsEmptyModule(d, ctx) == Trim(GetText(d)) = <<>> /\ ctx.isModuleLevel

\* the edit built by insertDocstring's callback on document d at version ver:
\* editor.edit runs the callback at once and sends the edit, with the version
\* it was built on, to the editor
PendingEdit(v, lang, d, ver, docstring, ctx) ==
  [kind |-> "insert", pos |-> InsertPos(d, lang, ctx), text |-> InsertedText(v, lang, docstring, ctx),
   on |-> d, version |-> ver]

\* mutant: only the model setting is required
ConfigMissing_ModelOnly(e) == ~e.model

\* the settings test: !model || !apiKey (!endpoint || !apiKey in the earlier
\* version)
ConfigMissing(e) == ~e.model \/ ~e.apiKey

Finish(c, msg) == [c EXCEPT !.pc = "done", !.messages = Append(@, msg)]

\* the command starts and runs to its first suspension: the checks, region
\* detection, then either the empty-module insertion or the backend request
Invoke(i) ==
  /\ inv[i].pc = "idle"
  /\ LET c == [inv[i] EXCEPT !.sel = selection, !.doc0 = doc]
         r == GetCodeToDocument(variant, languageId, doc, selection)
     IN inv' = [inv EXCEPT ![i] =
          IF ~env.editor THEN Finish(c, [kind |-> "noEditor"])
          ELSE IF ~Supported(variant, languageId) THEN Finish(c, [kind |-> "unsupported"])
          ELSE IF ConfigMissing(env) THEN Finish(c, [kind |-> "config"])
          ELSE IF r.kind = "throw"
               THEN Finish([c EXCEPT !.result = r], [kind |-> "caught", error |-> [kind |-> "errDefinition"]])
          ELSE IF r.kind = "null"
               THEN Finish([c EXCEPT !.result = r], [kind |-> "guidance"])
          ELSE IF IsEmptyModule(doc, r.ctx)
               THEN [c EXCEPT !.result = r, !.pc = "edit",
                              !.docstring = EmptyDocstring(variant, languageId),
                              !.pending = PendingEdit(variant, languageId, doc, version,
                                                      EmptyDocstring(variant, languageId), r.ctx)]
          ELSE [c EXCEPT !.result = r, !.pc = "fetch", !.apiCalls = @ + 1]]
  /\ UNCHANGED <<variant, languageId, env, doc, version, selection>>

\* the fetch resolves: callGeminiAPI throws, or returns the cleaned text and
\* insertDocstring builds its edit
FetchResolvesWith(i, resp) ==
  /\ inv[i].pc = "fetch"
  /\ LET out == CallGeminiAPI(variant, resp)
     IN inv' = [inv EXCEPT ![i] =
          IF out.kind = "throw"
          THEN Finish([@ EXCEPT !.response = resp], [kind |-> "caught", error |-> out.message])
          ELSE [@ EXCEPT !.pc = "edit", !.response = resp, !.docstring = out.docstring,
                         !.pending = PendingEdit(variant, languageId, doc, version,
                                                 out.docstring, inv[i].result.ctx)]]
  /\ UNCHANGED <<variant, languageId, env, doc, version, selection>>

FetchResolves(i) == \E resp \in Responses : FetchResolvesWith(i, resp)

\* the editor answers the edit and the command reports success: the edit is
\* applied when the buffer still has the version the edit was built on,
\* otherwise editor.edit resolves to false with the buffer untouched;
\* insertDocstring does not look at the value editor.edit resolves to
ApplyEdit(i) ==
  /\ inv[i].pc = "edit"
  /\ IF inv[i].pending.version = version
     THEN /\ doc' = ApplyInsert(doc, inv[i].pending.pos, inv[i].pending.text)
          /\ version' = version + 1
          /\ inv' = [inv EXCEPT ![i] =
               Finish([@ EXCEPT !.before = doc, !.inserts = @ + 1], [kind |-> "success"])]
     ELSE /\ UNCHANGED <<doc, version>>
          /\ inv' = [inv EXCEPT ![i] = Finish([@ EXCEPT !.before = doc], [kind |-> "success"])]
  /\ UNCHANGED <<variant, languageId, env, selection>>

Next == Invoke(1) \/ FetchResolves(1) \/ ApplyEdit(1)

Spec == Init /\ [][Next]_vars

\* ----------------------------------------- the cleanup on many backend texts
\* largest number of pieces a backend text is put together from
MaxTokens == 3

\* the pieces: the delimiters the cleanup looks for, a language tag, a blank
\* and a letter
CleanupTokens == {Fence, TagPython, TripleQuote, PsOpen, PsClose, <<" ">>, <<"a">>}

RECURSIVE Concat(_)
Concat(parts) == IF parts = <<>> THEN <<>> ELSE Head(parts) \o Concat(Tail(parts))

\* every text made of at most MaxTokens pieces
WideRawTexts == {Concat(ts) : ts \in UNION {[1..n -> CleanupTokens] : n \in 0..MaxTokens}}

\* the command is started in module mode on a one-line buffer
InitCleanup ==
  /\ variant \in {"current", "legacy"}
  /\ languageId \in {"python", "powershell"}
  /\ Supported(variant, languageId)
  /\ env = [editor |-> TRUE, model |-> TRUE, apiKey |-> TRUE]
  /\ doc \in [1..1 -> LineChoices(languageId) \ {<<>>}]
  /\ version = 1
  /\ selection = [start |-> Pos(0, 0), end |-> Pos(0, 0)]
  /\ inv = [i \in Commands |-> IdleCommand]

\* the fetch resolves with a payload holding any of the wide texts
FetchResolvesWide(i) == \E t \in WideRawTexts : FetchResolvesWith(i, [kind |-> "ok", text |-> t])

NextCleanup == Invoke(1) \/ FetchResolves(1) \/ FetchResolvesWide(1) \/ ApplyEdit(1)

SpecCleanup == InitCleanup /\ [][NextCleanup]_vars

\* ------------------------------------- the command in every configuration
\* largest number of lines of a buffer the configurations are tried on
MaxConfigLines == 2

\* languages of the active buffer: the two with a profile and one without
LanguageIds == {"python", "powershell", "plaintext"}

\* any combination of: an active editor, the model (endpoint) setting, the API
\* key setting; any language; both versions
InitConfig ==
  /\ variant \in {"current", "legacy"}
  /\ languageId \in LanguageIds
  /\ env \in [editor : BOOLEAN, model : BOOLEAN, apiKey : BOOLEAN]
  /\ doc \in UNION {[1..n -> LineChoices(languageId)] : n \in 1..MaxConfigLines}
  /\ version = 1
  /\ selection \in Selections(doc)
  /\ inv = [i \in Commands |-> IdleCommand]

SpecConfig == InitConfig /\ [][Next]_vars

\* ------------------------------- two runs of the command and a user typing
\* the user's edit is possible while the buffer has fewer lines than this
MaxConcLines == 3

\* lines of the buffers the interleavings are tried on
ConcLines(lang) ==
  IF lang = "powershell"
  THEN {KwFunction \o <<" ", "f", " ", "{">>, <<" ", " ", "x", ",">>}
  ELSE {KwDef \o <<" ", "f", "(", ")", ":">>,
        <<" ", " ">> \o KwDef \o <<" ", "g", "(", ")", ":">>,
        <<" ", " ", "b", ":">>}

InitConc ==
  /\ variant \in {"current", "legacy"}
  /\ languageId \in {"python", "powershell"}
  /\ Supported(variant, languageId)
  /\ env = [editor |-> TRUE, model |-> TRUE, apiKey |-> TRUE]
  /\ doc \in [1..2 -> ConcLines(languageId)]
  /\ version = 1
  /\ selection \in Selections(doc)
  /\ inv = [i \in Commands |-> IdleCommand]

\* the user puts the cursor at the top of the buffer and types a line break:
\* an empty line is inserted before line 0 and the cursor ends on line 1
UserEdit ==
  /\ Len(doc) < MaxConcLines
  /\ doc' = <<<<>>>> \o doc
  /\ version' = version + 1
  /\ selection' = [start |-> Pos(1, 0), end |-> Pos(1, 0)]
  /\ UNCHANGED <<variant, languageId, env, inv>>

\* the command can be started again while an earlier run waits
NextConc ==
  \/ \E i \in Commands : Invoke(i) \/ FetchResolves(i) \/ ApplyEdit(i)
  \/ UserEdit

SpecConc == InitConc /\ [][NextConc]_vars

\* ============================================================== properties
\* the run of the command the properties speak about
Run == inv[1]

\* detection has run in this state
Detected == Run.result.kind # "none"

\* the selection the command read is a bare cursor at line 0, column 0
AtOrigin == Run.sel.start = Run.sel.end /\ Run.sel.start = Pos(0, 0)

\* the selection the command read is a bare cursor elsewhere
BareCursor == Run.sel.start = Run.sel.end /\ ~AtOrigin

\* the text of lines a..b-1 (zero-based, half-open) of document d, each followed
\* by its line break except the last line of the document
RECURSIVE LinesText(_, _, _)
LinesText(d, a, b) ==
  IF a >= b THEN <<>>
  ELSE d[a + 1] \o (IF a + 1 < Len(d) THEN NL ELSE <<>>) \o LinesText(d, a + 1, b)

\* the number of characters before position p in document d
CharsBefore(d, p) == Len(LinesText(d, 0, p.line)) + p.character

\* C1: a context is module-level exactly when the command was started with a
\* bare cursor at line 0, column 0; it is then always returned and holds the full
\* buffer text, the empty indentation and definition line 0
C1_ModuleMode ==
  Detected =>
    /\ AtOrigin =>
         /\ Run.result.kind = "context"
         /\ Run.result.ctx.isModuleLevel
         /\ Run.result.ctx.code = LinesText(Run.doc0, 0, Len(Run.doc0))
         /\ Run.result.ctx.indentation = <<>>
         /\ Run.result.ctx.definitionLine = 0
    /\ (~AtOrigin /\ Run.result.kind = "context") => ~Run.result.ctx.isModuleLevel

\* module mode was taken on a buffer of several lines
C1_Witness ==
  /\ Detected /\ AtOrigin /\ Run.result.kind = "context"
  /\ Run.result.ctx.isModuleLevel
  /\ Len(Run.doc0) > 1 /\ Len(Run.result.ctx.code) > 0

\* C2: a non-empty selection always yields a context, whose code is the selected
\* characters of the buffer, unchanged, whose definition line is the line the
\* selection starts on and whose indentation is that line's leading whitespace
C2_SelectionMode ==
  (Detected /\ Run.sel.start # Run.sel.end) =>
    LET full == LinesText(Run.doc0, 0, Len(Run.doc0))
        a == CharsBefore(Run.doc0, Run.sel.start)
        b == CharsBefore(Run.doc0, Run.sel.end)
        startLine == Run.doc0[Run.sel.start.line + 1]
        ctx == Run.result.ctx
    IN /\ Run.result.kind = "context"
       /\ ~ctx.isModuleLevel
       /\ ctx.code = SubSeq(full, a + 1, b)
       /\ ctx.range = Run.sel
       /\ ctx.definitionLine = Run.sel.start.line
       /\ StartsWith(startLine, ctx.indentation)
       /\ \A j \in 1..Len(ctx.indentation) : ctx.indentation[j] \in {" ", "\t"}
       /\ Len(startLine) > Len(ctx.indentation) => ~IsWs(startLine[Len(ctx.indentation) + 1])

\* a selection that starts at the end of an indented line and runs over the line
\* break: its text starts with whitespace and its start line is indented
C2_Witness ==
  /\ Detected /\ Run.sel.start # Run.sel.end
  /\ Run.result.kind = "context"
  /\ Run.sel.start.character > 0 /\ Run.sel.end.line > Run.sel.start.line
  /\ Len(Run.result.ctx.indentation) > 0
  /\ Run.result.ctx.code[1] = "\n"

\* line l of the buffer the command read
Line0(l) == Run.doc0[l + 1]

\* line l opens a definition, for the running version and profile
IsDefLine(l) == DefinitionKeywords(variant, languageId, Line0(l))

\* line l holds a character that is not whitespace
NonBlank(l) == \E j \in 1..Len(Line0(l)) : ~IsWs(Line0(l)[j])

\* the number of whitespace characters line l starts with
Indent(l) ==
  IF NonBlank(l)
  THEN (CHOOSE j \in 1..Len(Line0(l)) :
          ~IsWs(Line0(l)[j]) /\ \A m \in 1..(j - 1) : IsWs(Line0(l)[m])) - 1
  ELSE Len(Line0(l))

\* the line the bare cursor is on
CursorLine == Run.sel.start.line

\* C3 (as claimed): a bare cursor on a body line c of the definition at line d
\* (no definition line in d+1..c, each of those lines blank or deeper than d)
\* yields a context with definitionLine = d whose region starts at d and
\* includes c
C3_BodyCursorFindsDefinition ==
  (Detected /\ BareCursor) =>
    \A d \in 0..(CursorLine - 1) :
      ( /\ IsDefLine(d)
        /\ \A l \in (d + 1)..CursorLine :
             ~IsDefLine(l) /\ (~NonBlank(l) \/ Indent(l) > Indent(d)) )
      => /\ Run.result.kind = "context"
         /\ Run.result.ctx.definitionLine = d
         /\ Run.result.ctx.range.start = Pos(d, 0)
         /\ Run.result.ctx.range.end.line > CursorLine

\* some line from the cursor line up to line 0 is not blank and ends neither
\* with a comma nor with a colon
StrictLineAbove ==
  \E l \in 0..CursorLine :
    /\ NonBlank(l)
    /\ Line0(l)[Len(Line0(l))] \notin {",", ":"}

\* a bare cursor away from (0,0) with no definition line at or above it
NoDefinitionAbove == Detected /\ BareCursor /\ \A l \in 0..CursorLine : ~IsDefLine(l)

EnclosingFound == Detected /\ BareCursor /\ Run.result.kind = "context"

\* line l ends the block of a definition indented k: not blank, indented <= k
Boundary(l, k) == NonBlank(l) /\ Indent(l) <= k

\* C5: in enclosing-definition mode the region is the half-open line range
\* [d, e), e the first line after d that is not blank and indented no deeper than
\* d, or the line count; the code is the text of those lines; a definition line
\* directly followed by such a line gives a region of that one line, and a
\* cursor on that definition line gets this context, not an error
C5_RegionIsBlock ==
  /\ EnclosingFound =>
       LET ctx == Run.result.ctx
           d == ctx.definitionLine
           e == ctx.range.end.line
           n == Len(Run.doc0)
       IN /\ ctx.range = [start |-> Pos(d, 0), end |-> Pos(e, 0)]
          /\ d < e /\ e <= n
          /\ \A l \in (d + 1)..(e - 1) : ~Boundary(l, Indent(d))
          /\ e < n => Boundary(e, Indent(d))
          /\ ctx.code = LinesText(Run.doc0, d, e)
          /\ (d + 1 < n /\ Boundary(d + 1, Indent(d))) => e = d + 1
  /\ (Detected /\ BareCursor /\ IsDefLine(CursorLine)) =>
       /\ Run.result.kind = "context"
       /\ Run.result.ctx.definitionLine = CursorLine

\* an indented definition directly followed by a line at its own indentation:
\* the region is the definition line alone
C5_Witness ==
  /\ EnclosingFound
  /\ Indent(Run.result.ctx.definitionLine) > 0
  /\ Run.result.ctx.range.end.line = Run.result.ctx.definitionLine + 1
  /\ Run.result.ctx.range.end.line < Len(Run.doc0)
  /\ Indent(Run.result.ctx.range.end.line) = Indent(Run.result.ctx.definitionLine)

\* the command's edit has been applied to the buffer
Inserted == Run.inserts > 0

\* document after is document before with one or more whole lines spliced in
\* in front of line n (n = Len(before) appends them)
SplicedAt(before, after, n) ==
  /\ Len(after) > Len(before)
  /\ SubSeq(after, 1, n) = SubSeq(before, 1, n)
  /\ SubSeq(after, Len(after) - (Len(before) - n) + 1, Len(after))
       = SubSeq(before, n + 1, Len(before))

\* C6 (as claimed): after insertDocstring the buffer is the buffer before it
\* with one block of whole new lines spliced in at a line boundary, so that every
\* line of the buffer before is still a complete line
C6_InsertionSplicesWholeLines ==
  Inserted => \E n \in 0..Len(Run.before) : SplicedAt(Run.before, doc, n)

\* line l of document d contains the one-character block-open marker of the profile
HasMarker(d, l) ==
  \E j \in 1..Len(d[l + 1]) :
    d[l + 1][j] = (IF languageId = "powershell" THEN "{" ELSE ":")

\* the first line at or after line dl of document d that contains the marker
\* (-1 when there is none)
FirstMarkerLine(d, dl) ==
  LET ls == {l \in dl..(Len(d) - 1) : HasMarker(d, l)}
  IN IF ls = {} THEN -1 ELSE CHOOSE l \in ls : \A m \in ls : l <= m

\* insertDocstring has built a non-module edit
NonModuleEdit == Run.pending.kind = "insert" /\ ~Run.result.ctx.isModuleLevel

\* C7: in non-module mode the insertion position is line s+1, column 0, s being
\* the first line at or after the definition line that contains the block-open
\* marker; when line s+1 exists the block becomes lines s+1.. of the buffer and
\* the lines up to s and from s+1 on are kept
C7_InsertAfterSignatureEnd ==
  NonModuleEdit =>
    LET s == FirstMarkerLine(Run.doc0, Run.result.ctx.definitionLine)
    IN s # -1 =>
         /\ Run.pending.pos = Pos(s + 1, 0)
         /\ (Inserted /\ s + 1 < Len(Run.before)) => SplicedAt(Run.before, doc, s + 1)

\* a signature on lines 0-2 with the marker only on line 2: position line 3
C7_Witness ==
  /\ NonModuleEdit
  /\ Run.sel.start = Run.sel.end
  /\ Run.result.ctx.definitionLine = 0
  /\ FirstMarkerLine(Run.doc0, 0) = 2
  /\ Run.pending.pos = Pos(3, 0)

\* C8 (as claimed): in module mode the block is inserted at line 0, or at line 1
\* when line 0 starts with '#!', and then line 0 stays the first line, unchanged
C8_ModuleInsertKeepsDirective ==
  (Inserted /\ Run.result.ctx.isModuleLevel) =>
    IF Len(Run.before[1]) >= 2 /\ Run.before[1][1] = "#" /\ Run.before[1][2] = "!"
    THEN doc[1] = Run.before[1] /\ SplicedAt(Run.before, doc, 1)
    ELSE SplicedAt(Run.before, doc, 0)

\* the command was started on the empty buffer with the cursor at (0,0)
EmptyModuleRun == Run.pc # "idle" /\ Run.doc0 = <<(<<>>)>> /\ AtOrigin

\* the text inserted for the empty module: the literal empty-code response
\* between the profile's delimiters (the earlier version: inside triple quotes)
EmptyModuleText ==
  IF variant = "legacy"
  THEN TripleQuote \o PyEmptyCodeResponse \o TripleQuote \o NL \o NL
  ELSE LANGUAGE_CONFIGS[languageId].commentStyle.start \o NL
       \o LANGUAGE_CONFIGS[languageId].emptyCodeResponse \o NL
       \o LANGUAGE_CONFIGS[languageId].commentStyle.end \o NL \o NL

\* C9: on the empty buffer in module mode the backend is never called, the
\* command goes straight to the insertion, and it ends with the success message
\* after one insertion whose body is the literal empty-code response
C9_EmptyModuleShortCircuit ==
  EmptyModuleRun =>
    /\ Run.apiCalls = 0 /\ Run.response.kind = "none"
    /\ Run.pc \in {"edit", "done"}
    /\ Run.docstring = IF variant = "legacy"
                       THEN TripleQuote \o PyEmptyCodeResponse \o TripleQuote
                       ELSE LANGUAGE_CONFIGS[languageId].emptyCodeResponse
    /\ Run.pc = "done" =>
         /\ Run.inserts = 1
         /\ Run.messages = <<[kind |-> "success"]>>
         /\ LinesText(doc, 0, Len(doc)) = EmptyModuleText

\* the empty-module run of the current version has finished
C9_Witness ==
  /\ EmptyModuleRun /\ variant = "current" /\ Run.pc = "done"
  /\ Run.inserts = 1 /\ Len(doc) > 1

\* the backend call failed
BackendFailed == Run.response.kind \in {"http", "error", "notext"}

\* C10: when the backend call fails the command ends with the one error message
\* of that failure (carrying the status for a non-success status), builds and
\* applies no edit, and the buffer is as it was when the command started
C10_BackendFailureLeavesBuffer ==
  BackendFailed =>
    /\ Run.pc = "done"
    /\ Len(Run.messages) = 1 /\ Run.messages[1].kind = "caught"
    /\ Run.response.kind = "http" =>
         Run.messages[1].error = [kind |-> "errStatus", status |-> Run.response.status]
    /\ Run.response.kind = "error" => Run.messages[1].error = [kind |-> "errApi"]
    /\ Run.response.kind = "notext" => Run.messages[1].error = [kind |-> "errFormat"]
    /\ Run.pending.kind = "none" /\ Run.inserts = 0
    /\ doc = Run.doc0

\* status 429 on a request made for a detected definition
C10_Witness ==
  /\ Run.response = [kind |-> "http", status |-> 429]
  /\ Run.apiCalls = 1 /\ Run.result.kind = "context"
  /\ ~Run.result.ctx.isModuleLevel /\ Len(doc) > 1
  /\ Run.messages = <<[kind |-> "caught", error |-> [kind |-> "errStatus", status |-> 429]]>>

\* the backend returned text and callGeminiAPI cleaned it
Cleaned == Run.response.kind = "ok"

\* C11 (as claimed): cleaning the cleaned text again changes nothing
C11_CleanupIdempotent ==
  Cleaned => Cleanup(variant, Run.docstring) = Run.docstring

\* text s holds three backquotes in a row
HasFence(s) ==
  \E j \in 1..(Len(s) - 2) : s[j] = BackTick /\ s[j + 1] = BackTick /\ s[j + 2] = BackTick

\* text s holds the close-comment token
HasClose(s) == \E j \in 1..(Len(s) - 1) : s[j] = "#" /\ s[j + 1] = ">"

\* text s starts with three double quotes and ends with three double quotes
QuoteWrapped(s) ==
  /\ Len(s) >= 3
  /\ \A j \in 1..3 : s[j] = "\"" /\ s[Len(s) - j + 1] = "\""

\* C18 (as claimed): the body callGeminiAPI returns (current version) holds no
\* fence and no close-comment token, does not start with the open-comment
\* token, is not wrapped in triple quotes and has no surrounding whitespace
C18_CleanedBodyHasNoDelimiters ==
  (Cleaned /\ variant = "current") =>
    LET b == Run.docstring
    IN /\ ~HasFence(b)
       /\ ~HasClose(b)
       /\ ~(Len(b) >= 2 /\ b[1] = "<" /\ b[2] = "#")
       /\ ~QuoteWrapped(b)
       /\ b # <<>> => (~IsWs(b[1]) /\ ~IsWs(b[Len(b)]))

\* the command ran with an editor but without a profile for the buffer's
\* language or without one of the two settings
Unconfigured ==
  /\ Run.pc # "idle" /\ env.editor
  /\ (~Supported(variant, languageId) \/ ~env.model \/ ~env.apiKey)

\* C12: when the buffer's language has no profile or a setting is missing, the
\* command ends at once: detection has not run, no request was made, nothing
\* was inserted, the buffer is as it was, and the one message shown is the
\* unsupported-language warning or the settings error
C12_NoPipelineWithoutConfig ==
  Unconfigured =>
    /\ Run.pc = "done"
    /\ Run.result.kind = "none" /\ Run.response.kind = "none" /\ Run.pending.kind = "none"
    /\ Run.apiCalls = 0 /\ Run.inserts = 0
    /\ doc = Run.doc0 /\ version = 1
    /\ Run.messages =
         <<[kind |-> IF Supported(variant, languageId) THEN "config" ELSE "unsupported"]>>

\* a python buffer with the model set and the API key missing was refused with
\* the settings error
C12_Witness ==
  /\ Unconfigured /\ languageId = "python" /\ env.model /\ ~env.apiKey
  /\ Run.messages = <<[kind |-> "config"]>>

\* C13 (as claimed): every finished run has shown exactly one message; the
\* success message means this run's insertion was performed, any other message
\* means it inserted nothing; a raised detection error and a null detection show
\* different messages
C13_OneMessagePerRun ==
  \A i \in Commands :
    inv[i].pc = "done" =>
      /\ Len(inv[i].messages) = 1
      /\ inv[i].messages[1].kind = "success" <=> inv[i].inserts = 1
      /\ inv[i].inserts <= 1
      /\ inv[i].result.kind = "null" => inv[i].messages[1] = [kind |-> "guidance"]
      /\ inv[i].result.kind = "throw" => inv[i].messages[1].kind = "caught"
      /\ inv[i].response.kind \in {"http", "error", "notext"} => inv[i].messages[1].kind = "caught"

\* C16 (as claimed): when insertDocstring builds its edit for a definition or a
\* selection, the line at definitionLine in the buffer it edits is the line that
\* was there at detection
C16_DefinitionLineStillValid ==
  \A i \in Commands :
    (inv[i].pending.kind = "insert" /\ ~inv[i].result.ctx.isModuleLevel) =>
      LET l == inv[i].result.ctx.definitionLine
      IN inv[i].pending.on[l + 1] = inv[i].doc0[l + 1]

\* the block-open marker of the buffer's profile
ProfileMarker == IF languageId = "powershell" THEN "{" ELSE ":"

\* the nearest definition line at or above the cursor line, -1 when there is none
NearestDefinition ==
  IF \E d \in 0..CursorLine : IsDefLine(d)
  THEN CHOOSE d \in 0..CursorLine : IsDefLine(d) /\ \A l \in (d + 1)..CursorLine : ~IsDefLine(l)
  ELSE -1

\* line l is not blank and ends neither with a comma nor with the profile's
\* block-open marker
Malformed(l) ==
  /\ NonBlank(l)
  /\ ~IsDefLine(l)
  /\ Line0(l)[Len(Line0(l))] \notin {",", ProfileMarker}

\* C14 (as claimed): in the current version, for a bare cursor away from (0,0),
\* detection raises exactly when a line from the cursor line up to the line
\* after the nearest definition is malformed for the buffer's profile
C14_StrictErrorExactly ==
  (variant = "current" /\ Detected /\ BareCursor) =>
    (Run.result.kind = "throw" <=> \E l \in (NearestDefinition + 1)..CursorLine : Malformed(l))

\* C15 (as claimed): a context found for a bare cursor away from (0,0) has the
\* cursor line inside its region
C15_CursorInsideRegion ==
  (Detected /\ BareCursor /\ Run.result.kind = "context") =>
    /\ Run.result.ctx.definitionLine <= CursorLine
    /\ CursorLine < Run.result.ctx.range.end.line

\* the lines of the text handed to editBuilder.insert, split at line breaks
InsertedLines == SplitLines(Run.pending.text)

\* the lines of the body handed to insertDocstring
BodyLines == SplitLines(Run.docstring)

\* the indentation of the detected definition followed by four spaces
BodyIndent == Run.result.ctx.indentation \o <<" ", " ", " ", " ">>

\* body line k as it is inserted: empty when blank, else indented and prefixed
BodyLineInserted(k, prefix) ==
  IF \A j \in 1..Len(BodyLines[k]) : IsWs(BodyLines[k][j]) THEN <<>>
  ELSE BodyIndent \o prefix \o BodyLines[k]

\* the inserted lines are: the open delimiter line, the body lines, the close
\* delimiter line, a blank line (and the empty rest after the last line break)
WrappedBlock ==
  LET style == LANGUAGE_CONFIGS[languageId].commentStyle
      n == Len(BodyLines)
  IN /\ Len(InsertedLines) = n + 4
     /\ InsertedLines[1] = BodyIndent \o style.start
     /\ \A k \in 1..n : InsertedLines[k + 1] = BodyLineInserted(k, style.linePrefix)
     /\ InsertedLines[n + 2] = BodyIndent \o style.end
     /\ InsertedLines[n + 3] = <<>> /\ InsertedLines[n + 4] = <<>>

\* the inserted lines are the body lines only (and the empty rest after the
\* last line break)
BareBlock ==
  LET n == Len(BodyLines)
  IN /\ Len(InsertedLines) = n + 1
     /\ \A k \in 1..n : InsertedLines[k] = BodyLineInserted(k, <<>>)
     /\ InsertedLines[n + 1] = <<>>

\* C17 (as claimed): the block inserted for a definition or a selection is the
\* indented open delimiter line, the body lines (blank ones empty, the others
\* indented and prefixed), the indented close delimiter line and a blank line
C17_InsertedBlockWrapped == NonModuleEdit => WrappedBlock

\* C17 (amended): that is the inserted block in the current version; the
\* earlier version inserts only the body lines, blank ones empty and the others
\* indented, with no delimiter lines and no blank line after them
C17_InsertedBlockByVersion ==
  NonModuleEdit => IF variant = "current" THEN WrappedBlock ELSE BareBlock

\* the current version inserted, for an indented definition, a body that holds
\* a blank line between two others
C17_Witness ==
  /\ NonModuleEdit /\ variant = "current" /\ Run.pc = "done" /\ Run.inserts = 1
  /\ Len(Run.result.ctx.indentation) > 0
  /\ Len(BodyLines) = 3 /\ BodyLines[2] = <<>> /\ BodyLines[1] # <<>>

====
